---- MODULE Spec2Model ----
(***************************************************************************)
(* Model of the privacyserver crate: the Paillier cryptosystem of          *)
(* paillier.rs (key generation, encrypt, decrypt, homomorphic addition)    *)
(* and the ledger handlers of main.rs (credit, debit, get_net) that run    *)
(* on concurrent workers and share LEDGER behind a Mutex.                  *)
(***************************************************************************)
EXTENDS Integers, Naturals, Sequences, FiniteSets, TLC

(* ------------------------------ bounds --------------------------------- *)

\* total key size given to PaillierKey::new by the server (main.rs passes 16;
\* the model uses a size whose n^2 products stay inside TLC's integers)
KeyBits == 8

\* key generation is explored for every requested size 0..MaxBits
MaxBits == 11

\* blinding factors are drawn from [0, n) below this bound
MaxBlind == 2

\* plaintexts of the cipher experiment: [0, MaxPlain) and n-1
MaxPlain == 2

\* credit and debit requests accepted in one run (queries are not limited)
MaxTx == 2

(* --------------------------- Option / errors --------------------------- *)

\* Option::None of BigUint::parse_bytes and BigUint::modinv
None == -1

NoKey == [n |-> 0, n_squared |-> 0, g |-> 0, lambda |-> 0, mu |-> 0]

NoCt == [c |-> None, n_squared |-> 0]

(* ------------------------------ arithmetic ----------------------------- *)

RECURSIVE Pow2(_)
Pow2(k) == IF k = 0 THEN 1 ELSE 2 * Pow2(k - 1)

\* BigUint::modpow: b^e mod m by square and multiply
RECURSIVE ModPow(_, _, _)
ModPow(b, e, m) ==
    IF m = 1 THEN 0
    ELSE IF e = 0 THEN 1
    ELSE LET h == ModPow(b, e \div 2, m)
             s == (h * h) % m
         IN  IF e % 2 = 0 THEN s ELSE (s * (b % m)) % m

\* num_prime::nt_funcs::is_prime(..).probably(): exact below 2^64
IsPrime(x) == x > 1 /\ \A d \in 2..(x - 1) : (d * d > x) \/ (x % d # 0)

\* BigUint::modinv: Some(x) with a*x = 1 (mod m), None when gcd(a, m) # 1
ModInv(a, m) ==
    IF \E x \in 0..(m - 1) : (a * x) % m = 1 % m
    THEN CHOOSE x \in 0..(m - 1) : (a * x) % m = 1 % m
    ELSE None

(* ---------------------------- key generation --------------------------- *)

\* a candidate whose top bit is not forced
ForceBitsNoTop(rnd, b) == IF rnd % 2 = 0 THEN rnd + 1 ELSE rnd

\* a candidate whose low bit is not forced
ForceBitsNoOdd(rnd, b) ==
    IF (rnd \div Pow2(b - 1)) % 2 = 0 THEN rnd + Pow2(b - 1) ELSE rnd

\* gen_prime steps 2 and 3: cand |= 1 << (bits-1); cand |= 1
ForceBits(rnd, b) ==
    LET top  == Pow2(b - 1)
        hi   == IF (rnd \div top) % 2 = 0 THEN rnd + top ELSE rnd
    IN  IF hi % 2 = 0 THEN hi + 1 ELSE hi

\* the candidates gen_prime(b) can test, and the primes it can return
Candidates(b) == { ForceBits(rnd, b) : rnd \in 0..(Pow2(b) - 1) }

Primes(b) == { c \in Candidates(b) : IsPrime(c) }

\* PaillierKey::new lines 25-32, from the two primes drawn
MakeKey(pp, qq) ==
    LET nn == pp * qq
        ll == (pp - 1) * (qq - 1)
    IN  [n |-> nn, n_squared |-> nn * nn, g |-> nn + 1,
         lambda |-> ll, mu |-> ModInv(ll, nn)]

(* --------------------------------- cipher ------------------------------ *)

PaillierCiphertext(c, n_squared) == [c |-> c, n_squared |-> n_squared]

\* the blinding factors rng.gen_biguint_below(&key.n) can return
Blinds(k) == { r \in 0..(k.n - 1) : r < MaxBlind }

\* encrypt, with r the value drawn from the generator
encrypt(k, m, r) ==
    PaillierCiphertext(
        (ModPow(k.g, m, k.n_squared) * ModPow(r, k.n, k.n_squared)) % k.n_squared,
        k.n_squared)

\* decrypt: BigUint subtraction panics when x = 0
decrypt(k, ct) ==
    LET x == ModPow(ct.c, k.lambda, k.n_squared)
    IN  IF x < 1
        THEN [status |-> "panic"]
        ELSE [status |-> "ok", m |-> (((x - 1) \div k.n) * k.mu) % k.n]

\* a combination that forgets the reduction modulo n^2
homomorphic_addition_no_mod(c1, c2, n_squared) ==
    [status |-> "ok", ct |-> PaillierCiphertext(c1.c * c2.c, n_squared)]

homomorphic_addition(c1, c2, n_squared) ==
    [status |-> "ok", ct |-> PaillierCiphertext((c1.c * c2.c) % n_squared, n_squared)]

(* ------------------------------- state --------------------------------- *)

VARIABLES
    bits,      \* PaillierKey::new's argument
    kpc,       \* position inside PaillierKey::new: "p", "q", "build", "done", "panic"
    cand,      \* gen_prime's last candidate
    p, q,      \* the primes returned by the two gen_prime calls
    key,       \* KEY, the process-wide key pair
    key2,      \* a second, independently generated key pair (cipher experiment)
    ea, eb,    \* the two ciphertexts of the cipher experiment, with their plaintexts
    sum,       \* the last result of homomorphic_addition in the experiment
    dec,       \* the last result of decrypt in the experiment
    ledger,    \* LEDGER, the Vec<Record>
    lock,      \* holder of LEDGER's Mutex, or Free
    pc,        \* position of each worker inside its handler
    req,       \* the request each worker is serving
    local,     \* each handler's locals: m, neg_m, ct_m, prev_ct, new_ct
    resp,      \* each worker's HTTP response
    ntx,       \* number of credit and debit requests accepted so far
    touched,   \* history: the accounts a record was ever appended for
    net        \* history: per account, credited minus debited amounts of appended records

keyvars == <<bits, kpc, cand, p, q, key>>
expvars == <<key2, ea, eb, sum, dec>>
srvvars == <<ledger, lock, pc, req, local, resp, ntx, touched, net>>
vars == <<bits, kpc, cand, p, q, key, key2, ea, eb, sum, dec,
          ledger, lock, pc, req, local, resp, ntx, touched, net>>

(* ----------------------- PaillierKey::new, stepwise -------------------- *)

\* one iteration of gen_prime's loop, for p (kpc = "p") or q (kpc = "q")
GenPrimeIter ==
    /\ kpc \in {"p", "q"}
    /\ bits \div 2 >= 1
    /\ \E rnd \in 0..(Pow2(bits \div 2) - 1) :
          /\ cand' = ForceBits(rnd, bits \div 2)
          /\ IF IsPrime(cand')
             THEN IF kpc = "p"
                  THEN p' = cand' /\ q' = q /\ kpc' = "q"
                  ELSE q' = cand' /\ p' = p /\ kpc' = "build"
             ELSE UNCHANGED <<p, q, kpc>>
    /\ UNCHANGED <<bits, key>>

\* gen_prime(0): bits - 1 underflows usize, the call never returns a prime
GenPrimeUnderflow ==
    /\ kpc \in {"p", "q"}
    /\ bits \div 2 < 1
    /\ kpc' = "panic"
    /\ UNCHANGED <<bits, cand, p, q, key>>

\* lines 25-32: build the key, or panic in expect() when modinv is None
NewKey ==
    /\ kpc = "build"
    /\ LET k == MakeKey(p, q)
       IN  IF k.mu = None
           THEN kpc' = "panic" /\ key' = key
           ELSE kpc' = "done" /\ key' = k
    /\ UNCHANGED <<bits, cand, p, q>>

\* the key pairs PaillierKey::new(b) can return
Keys(b) == { MakeKey(pp, qq) : pp \in Primes(b \div 2), qq \in Primes(b \div 2) }

InitKeyGen ==
    /\ bits \in 0..MaxBits
    /\ kpc = "p"
    /\ cand = None /\ p = None /\ q = None
    /\ key = NoKey

\* the state after Lazy::force(&KEY) of PaillierKey::new(KeyBits); the
\* constructor's locals are gone
KeyForced ==
    /\ bits = KeyBits
    /\ kpc = "done"
    /\ \E pp \in Primes(KeyBits \div 2), qq \in Primes(KeyBits \div 2) :
          /\ MakeKey(pp, qq).mu # None
          /\ key = MakeKey(pp, qq)
    /\ cand = None /\ p = None /\ q = None

(* --------------------------- cipher experiment ------------------------- *)

NoEnc == [key |-> 0, m |-> None, ct |-> NoCt]

NoRes == [status |-> "none"]

KeyOf(i) == IF i = 1 THEN key ELSE key2

\* the plaintexts in [0, n) the experiment encrypts
Plain(k) == { m \in 0..(k.n - 1) : m < MaxPlain \/ m = k.n - 1 }

EncryptA ==
    /\ \E i \in {1, 2} : \E m \in Plain(KeyOf(i)) : \E r \in Blinds(KeyOf(i)) :
          ea' = [key |-> i, m |-> m, ct |-> encrypt(KeyOf(i), m, r)]
    /\ sum' = NoRes /\ dec' = NoRes
    /\ UNCHANGED <<key2, eb>>

EncryptB ==
    /\ \E i \in {1, 2} : \E m \in Plain(KeyOf(i)) : \E r \in Blinds(KeyOf(i)) :
          eb' = [key |-> i, m |-> m, ct |-> encrypt(KeyOf(i), m, r)]
    /\ sum' = NoRes /\ dec' = NoRes
    /\ UNCHANGED <<key2, ea>>

\* homomorphic_addition(&a, &b, &KEY.n_squared), as the handlers call it
Add ==
    /\ ea # NoEnc /\ eb # NoEnc
    /\ sum' = homomorphic_addition(ea.ct, eb.ct, key.n_squared)
    /\ dec' = NoRes
    /\ UNCHANGED <<key2, ea, eb>>

\* decrypt(&key_i, &a)
DecryptA ==
    /\ ea # NoEnc
    /\ \E i \in {1, 2} :
          dec' = [of |-> "a", key |-> i, res |-> decrypt(KeyOf(i), ea.ct)]
    /\ UNCHANGED <<key2, ea, eb, sum>>

\* decrypt(&key_i, &sum)
DecryptSum ==
    /\ sum # NoRes /\ sum.status = "ok"
    /\ \E i \in {1, 2} :
          dec' = [of |-> "sum", key |-> i, res |-> decrypt(KeyOf(i), sum.ct)]
    /\ UNCHANGED <<key2, ea, eb, sum>>

InitExp ==
    /\ key2 \in { k \in Keys(KeyBits) : k.mu # None }
    /\ ea = NoEnc /\ eb = NoEnc
    /\ sum = NoRes /\ dec = NoRes

\* the experiment does not run
ExpIdle ==
    /\ key2 = NoKey
    /\ ea = NoEnc /\ eb = NoEnc
    /\ sum = NoRes /\ dec = NoRes

(* ------------------------------- ledger -------------------------------- *)

\* the workers of HttpServer that run handlers concurrently
Workers == {1, 2}

Wallets == {"A", "B"}

Free == 0

Digits == <<"0", "1", "2", "3", "4", "5", "6", "7", "8", "9">>

\* the amount strings requests carry in field c
AmountStrings ==
    { <<"0">>, <<"4", "0">>, <<"2", "0", "0">>, <<>>, <<"4", "x">> }

DigitVal(ch) ==
    IF \E d \in 1..10 : Digits[d] = ch
    THEN (CHOOSE d \in 1..10 : Digits[d] = ch) - 1
    ELSE None

RECURSIVE FromDigits(_, _)
FromDigits(s, acc) ==
    IF s = <<>> THEN acc
    ELSE IF DigitVal(Head(s)) = None THEN None
    ELSE FromDigits(Tail(s), acc * 10 + DigitVal(Head(s)))

\* a parser that takes the empty string for zero
parse_bytes_empty_zero(s) == IF s = <<>> THEN 0 ELSE FromDigits(s, 0)

\* BigUint::parse_bytes(buf, 10): None for an empty or non-digit string
parse_bytes(s) == IF s = <<>> THEN None ELSE FromDigits(s, 0)

\* BigUint::to_str_radix(10)
RECURSIVE to_str_radix(_)
to_str_radix(x) ==
    IF x < 10 THEN <<Digits[x + 1]>>
    ELSE Append(to_str_radix(x \div 10), Digits[(x % 10) + 1])

Record(wallet, ct) == [wallet |-> wallet, ct |-> ct]

\* a search that forgets .rev() and returns the oldest record of the wallet
FindOldest(l, w) ==
    IF \E i \in 1..Len(l) : l[i].wallet = w
    THEN CHOOSE i \in 1..Len(l) :
            l[i].wallet = w /\ \A j \in 1..(i - 1) : l[j].wallet # w
    ELSE 0

\* a search that forgets the wallet filter and returns the newest record
FindNewestAny(l, w) == Len(l)

\* ledger.iter().rev().find(|r| r.wallet == wallet): index of the record, 0 for None
RevFind(l, w) ==
    IF \E i \in 1..Len(l) : l[i].wallet = w
    THEN CHOOSE i \in 1..Len(l) :
            l[i].wallet = w /\ \A j \in (i + 1)..Len(l) : l[j].wallet # w
    ELSE 0

\* a store that keeps only the latest balance in the last slot
PushOverwrite(l, rec) == IF l = <<>> THEN <<rec>> ELSE [l EXCEPT ![Len(l)] = rec]

\* a store that keeps one record, the newest, for the whole ledger
PushSingle(l, rec) == <<rec>>

\* Vec::push
Push(l, rec) == Append(l, rec)

NoReq == [op |-> "none", wallet |-> "", c |-> <<>>]

NoLocal ==
    [m |-> None, neg_m |-> None, ct_m |-> NoCt, seen |-> 0, prev_ct |-> NoCt,
     new_ct |-> NoCt]

NoResp == [status |-> 0]

BadRequest == [status |-> 400, body |-> "Invalid ciphertext"]

NotFound == [status |-> 404, body |-> "No records for that wallet"]

Ok(wallet, c) == [status |-> 200, wallet |-> wallet, c |-> c]

\* credit lines 60-68: parse the amount, reject it or encrypt it
CreditStart(t) ==
    /\ pc[t] = "idle" /\ ntx < MaxTx
    /\ ntx' = ntx + 1
    /\ \E w \in Wallets, c \in AmountStrings :
          /\ req' = [req EXCEPT ![t] = [op |-> "credit", wallet |-> w, c |-> c]]
          /\ LET m == parse_bytes(c)
             IN  IF m = None
                 THEN /\ resp' = [resp EXCEPT ![t] = BadRequest]
                      /\ pc' = [pc EXCEPT ![t] = "done"]
                      /\ local' = local
                 ELSE /\ \E r \in Blinds(key) :
                            local' = [local EXCEPT ![t].m = m,
                                                   ![t].ct_m = encrypt(key, m, r)]
                      /\ pc' = [pc EXCEPT ![t] = "lb_lock"]
                      /\ resp' = resp
    /\ UNCHANGED <<ledger, lock, touched, net>>

\* debit lines 88-96: parse, complement (BigUint subtraction panics below zero), encrypt
DebitStart(t) ==
    /\ pc[t] = "idle" /\ ntx < MaxTx
    /\ ntx' = ntx + 1
    /\ \E w \in Wallets, c \in AmountStrings :
          /\ req' = [req EXCEPT ![t] = [op |-> "debit", wallet |-> w, c |-> c]]
          /\ LET m == parse_bytes(c)
             IN  IF m = None
                 THEN /\ resp' = [resp EXCEPT ![t] = BadRequest]
                      /\ pc' = [pc EXCEPT ![t] = "done"]
                      /\ local' = local
                 ELSE IF key.n < m
                 THEN /\ pc' = [pc EXCEPT ![t] = "panic"]
                      /\ local' = [local EXCEPT ![t].m = m]
                      /\ resp' = resp
                 ELSE /\ \E r \in Blinds(key) :
                            local' = [local EXCEPT
                                         ![t].m = m,
                                         ![t].neg_m = key.n - m,
                                         ![t].ct_m = encrypt(key, key.n - m, r)]
                      /\ pc' = [pc EXCEPT ![t] = "lb_lock"]
                      /\ resp' = resp
    /\ UNCHANGED <<ledger, lock, touched, net>>

\* last_balance line 34: LEDGER.lock()
LastBalanceLock(t) ==
    /\ pc[t] = "lb_lock" /\ lock = Free
    /\ lock' = t
    /\ pc' = [pc EXCEPT ![t] = "lb_find"]
    /\ UNCHANGED <<ledger, req, local, resp, ntx, touched, net>>

\* a lookup that stores the encryption of zero it makes for a new account
LastBalanceFindStoring(t) ==
    /\ pc[t] = "lb_find" /\ lock = t
    /\ LET i == RevFind(ledger, req[t].wallet)
       IN  \E r \in Blinds(key) :
              LET prev == IF i # 0 THEN ledger[i].ct ELSE encrypt(key, 0, r)
              IN  /\ local' = [local EXCEPT
                                  ![t].seen = i,
                                  ![t].prev_ct = prev,
                                  ![t].new_ct =
                                      homomorphic_addition(prev, local[t].ct_m,
                                                           key.n_squared).ct]
                  /\ ledger' = IF i # 0 THEN ledger
                               ELSE Push(ledger, Record(req[t].wallet, prev))
    /\ lock' = Free
    /\ pc' = [pc EXCEPT ![t] = "push_lock"]
    /\ UNCHANGED <<req, resp, ntx, touched, net>>

\* a lookup whose guard outlives it: the caller still holds the lock when it
\* locks again for the push
LastBalanceFindKeepLock(t) ==
    /\ pc[t] = "lb_find" /\ lock = t
    /\ LET i == RevFind(ledger, req[t].wallet)
       IN  \E r \in Blinds(key) :
              LET prev == IF i # 0 THEN ledger[i].ct ELSE encrypt(key, 0, r)
              IN  local' = [local EXCEPT
                               ![t].seen = i,
                               ![t].prev_ct = prev,
                               ![t].new_ct =
                                   homomorphic_addition(prev, local[t].ct_m,
                                                        key.n_squared).ct]
    /\ lock' = lock
    /\ pc' = [pc EXCEPT ![t] = "push_lock"]
    /\ UNCHANGED <<ledger, req, resp, ntx, touched, net>>

\* last_balance lines 35-41 and the caller's homomorphic_addition: the guard is
\* dropped when last_balance returns
LastBalanceFind(t) ==
    /\ pc[t] = "lb_find" /\ lock = t
    /\ LET i == RevFind(ledger, req[t].wallet)
       IN  \E r \in Blinds(key) :
              LET prev == IF i # 0 THEN ledger[i].ct ELSE encrypt(key, 0, r)
              IN  local' = [local EXCEPT
                               ![t].seen = i,
                               ![t].prev_ct = prev,
                               ![t].new_ct =
                                   homomorphic_addition(prev, local[t].ct_m, key.n_squared).ct]
    /\ lock' = Free
    /\ pc' = [pc EXCEPT ![t] = "push_lock"]
    /\ UNCHANGED <<ledger, req, resp, ntx, touched, net>>

\* credit line 73 / debit line 101: LEDGER.lock()
PushLock(t) ==
    /\ pc[t] = "push_lock" /\ lock = Free
    /\ lock' = t
    /\ pc' = [pc EXCEPT ![t] = "push"]
    /\ UNCHANGED <<ledger, req, local, resp, ntx, touched, net>>

\* credit lines 73-82 / debit lines 101-109: push the record, drop the guard, respond
PushRecord(t) ==
    /\ pc[t] = "push" /\ lock = t
    /\ ledger' = Push(ledger, Record(req[t].wallet, local[t].new_ct))
    /\ lock' = Free
    /\ resp' = [resp EXCEPT ![t] = Ok(req[t].wallet, to_str_radix(local[t].new_ct.c))]
    /\ pc' = [pc EXCEPT ![t] = "done"]
    /\ touched' = touched \cup {req[t].wallet}
    /\ net' = [net EXCEPT ![req[t].wallet] =
                  IF req[t].op = "credit" THEN @ + local[t].m ELSE @ - local[t].m]
    /\ UNCHANGED <<req, local, ntx>>

\* get_net line 115: the request arrives
GetNetStart(t) ==
    /\ pc[t] = "idle"
    /\ \E w \in Wallets :
          req' = [req EXCEPT ![t] = [op |-> "net", wallet |-> w, c |-> <<>>]]
    /\ pc' = [pc EXCEPT ![t] = "net_lock"]
    /\ UNCHANGED <<ledger, lock, local, resp, ntx, touched, net>>

\* get_net line 116: LEDGER.lock()
GetNetLock(t) ==
    /\ pc[t] = "net_lock" /\ lock = Free
    /\ lock' = t
    /\ pc' = [pc EXCEPT ![t] = "net_find"]
    /\ UNCHANGED <<ledger, req, local, resp, ntx, touched, net>>

\* get_net lines 117-125: answer from the last record, the guard drops on return
GetNetFind(t) ==
    /\ pc[t] = "net_find" /\ lock = t
    /\ LET i == RevFind(ledger, req[t].wallet)
       IN  resp' = [resp EXCEPT ![t] =
                       IF i # 0
                       THEN Ok(req[t].wallet, to_str_radix(ledger[i].ct.c))
                       ELSE NotFound]
    /\ lock' = Free
    /\ pc' = [pc EXCEPT ![t] = "done"]
    /\ UNCHANGED <<ledger, req, local, ntx, touched, net>>

\* the response is sent and the worker takes the next request
Respond(t) ==
    /\ pc[t] = "done"
    /\ pc' = [pc EXCEPT ![t] = "idle"]
    /\ req' = [req EXCEPT ![t] = NoReq]
    /\ local' = [local EXCEPT ![t] = NoLocal]
    /\ resp' = [resp EXCEPT ![t] = NoResp]
    /\ UNCHANGED <<ledger, lock, ntx, touched, net>>

\* the server after startup: empty ledger, every worker idle
InitLedger ==
    /\ ledger = <<>>
    /\ lock = Free
    /\ pc = [t \in Workers |-> "idle"]
    /\ req = [t \in Workers |-> NoReq]
    /\ local = [t \in Workers |-> NoLocal]
    /\ resp = [t \in Workers |-> NoResp]
    /\ ntx = 0
    /\ touched = {}
    /\ net = [w \in Wallets |-> 0]

(* ---------------------------- specifications --------------------------- *)

\* key generation for every requested size
NextKeyGen ==
    \/ GenPrimeIter /\ UNCHANGED expvars /\ UNCHANGED srvvars
    \/ GenPrimeUnderflow /\ UNCHANGED expvars /\ UNCHANGED srvvars
    \/ NewKey /\ UNCHANGED expvars /\ UNCHANGED srvvars

\* PaillierKey::new is entered; nothing else runs
InitGen == InitKeyGen /\ ExpIdle /\ InitLedger

SpecKeyGen == InitGen /\ [][NextKeyGen]_vars

\* the cipher's pure functions applied to drawn inputs
NextCipher ==
    \/ EncryptA /\ UNCHANGED keyvars /\ UNCHANGED srvvars
    \/ EncryptB /\ UNCHANGED keyvars /\ UNCHANGED srvvars
    \/ Add /\ UNCHANGED keyvars /\ UNCHANGED srvvars
    \/ DecryptA /\ UNCHANGED keyvars /\ UNCHANGED srvvars
    \/ DecryptSum /\ UNCHANGED keyvars /\ UNCHANGED srvvars

\* two key pairs exist, no ciphertext yet
InitCipher == KeyForced /\ InitExp /\ InitLedger

SpecCipher == InitCipher /\ [][NextCipher]_vars

\* the server: every worker runs the handlers concurrently
Next ==
    \E t \in Workers :
        \/ CreditStart(t) /\ UNCHANGED keyvars /\ UNCHANGED expvars
        \/ DebitStart(t) /\ UNCHANGED keyvars /\ UNCHANGED expvars
        \/ LastBalanceLock(t) /\ UNCHANGED keyvars /\ UNCHANGED expvars
        \/ LastBalanceFind(t) /\ UNCHANGED keyvars /\ UNCHANGED expvars
        \/ PushLock(t) /\ UNCHANGED keyvars /\ UNCHANGED expvars
        \/ PushRecord(t) /\ UNCHANGED keyvars /\ UNCHANGED expvars
        \/ GetNetStart(t) /\ UNCHANGED keyvars /\ UNCHANGED expvars
        \/ GetNetLock(t) /\ UNCHANGED keyvars /\ UNCHANGED expvars
        \/ GetNetFind(t) /\ UNCHANGED keyvars /\ UNCHANGED expvars
        \/ Respond(t) /\ UNCHANGED keyvars /\ UNCHANGED expvars

\* the server after startup: KEY forced, LEDGER empty
Init == KeyForced /\ ExpIdle /\ InitLedger

Spec == Init /\ [][Next]_vars

\* the server with one worker: requests run one after another
NextSeq ==
    \/ CreditStart(1) /\ UNCHANGED keyvars /\ UNCHANGED expvars
    \/ DebitStart(1) /\ UNCHANGED keyvars /\ UNCHANGED expvars
    \/ LastBalanceLock(1) /\ UNCHANGED keyvars /\ UNCHANGED expvars
    \/ LastBalanceFind(1) /\ UNCHANGED keyvars /\ UNCHANGED expvars
    \/ PushLock(1) /\ UNCHANGED keyvars /\ UNCHANGED expvars
    \/ PushRecord(1) /\ UNCHANGED keyvars /\ UNCHANGED expvars
    \/ GetNetStart(1) /\ UNCHANGED keyvars /\ UNCHANGED expvars
    \/ GetNetLock(1) /\ UNCHANGED keyvars /\ UNCHANGED expvars
    \/ GetNetFind(1) /\ UNCHANGED keyvars /\ UNCHANGED expvars
    \/ Respond(1) /\ UNCHANGED keyvars /\ UNCHANGED expvars

SpecSeq == Init /\ [][NextSeq]_vars

(* -------------------------------- claims ------------------------------- *)

\* worker t has computed the new record of a credit or debit
Computed(t) == local[t].new_ct # NoCt

\* C1: the read of an account's previous ciphertext and the append of the new
\* record are one atomic step: two credit/debit operations on the same account
\* never both compute their new record from the same previous record.
C1_ReadAppendAtomic ==
    \A t1 \in Workers, t2 \in Workers :
        (t1 # t2 /\ Computed(t1) /\ Computed(t2) /\ req[t1].wallet = req[t2].wallet)
            => local[t1].seen # local[t2].seen

\* C2: with requests served one after another from an empty ledger, between
\* requests the current ciphertext of every touched account decrypts to
\* (credited minus debited amounts) mod n, whatever blinding factors were drawn.
C2_LedgerAccumulation ==
    \A w \in Wallets :
        (pc[1] = "idle" /\ w \in touched)
            => LET res == decrypt(key, ledger[RevFind(ledger, w)].ct)
               IN  res.status = "ok" /\ res.m = net[w] % key.n

\* C3: round trip: decrypting encrypt(m) under the same key completes and
\* returns m, for every key pair, every m in [0, n) and every blinding factor.
C3_RoundTrip ==
    (dec # NoRes /\ dec.of = "a" /\ dec.key = ea.key)
        => (dec.res.status = "ok" /\ dec.res.m = ea.m)

\* C4: homomorphism: the combination of encrypt(a) and encrypt(b) under one
\* key decrypts to (a + b) mod n, for every pair of blinding factors.
C4_Homomorphism ==
    (dec # NoRes /\ dec.of = "sum" /\ ea.key = 1 /\ eb.key = 1 /\ dec.key = 1)
        => (dec.res.status = "ok" /\ dec.res.m = (ea.m + eb.m) % key.n)

\* C5: combining two ciphertexts whose moduli differ fails with a
\* modulus-mismatch error and returns no ciphertext.
C5_AddRejectsMismatch ==
    (sum # NoRes /\ ea.ct.n_squared # eb.ct.n_squared)
        => sum.status = "ModulusMismatch"

\* C6: decrypting a ciphertext whose modulus is not the n_squared of the key
\* used fails with a modulus-mismatch error and returns no plaintext.
C6_DecryptRejectsMismatch ==
    (dec # NoRes /\ dec.of = "a" /\ ea.ct.n_squared # KeyOf(dec.key).n_squared)
        => dec.res.status = "ModulusMismatch"

\* a valid base-10 non-negative integer: one or more decimal digits
IsNumeral(s) ==
    /\ s # <<>>
    /\ \A i \in 1..Len(s) :
          s[i] \in {"0", "1", "2", "3", "4", "5", "6", "7", "8", "9"}

Malformed(r) == r.op \in {"credit", "debit"} /\ ~IsNumeral(r.c)

C8_NetQuery ==
    [][\A t \in Workers :
          (pc[t] = "net_find" /\ pc'[t] = "done")
             => IF req[t].wallet \notin touched
                THEN resp'[t].status = 404
                ELSE /\ resp'[t].status = 200
                     /\ resp'[t].wallet = req[t].wallet
                     /\ \E i \in 1..Len(ledger) :
                           /\ ledger[i].wallet = req[t].wallet
                           /\ \A j \in (i + 1)..Len(ledger) :
                                 ledger[j].wallet # req[t].wallet
                           /\ parse_bytes(resp'[t].c) = ledger[i].ct.c]_vars

C8_Witness ==
    \E t \in Workers :
        /\ req[t].op = "net" /\ pc[t] = "done" /\ resp[t].status = 200
        /\ \E i \in 1..Len(ledger), j \in 1..Len(ledger) :
              /\ i < j
              /\ ledger[i].wallet = req[t].wallet
              /\ ledger[j].wallet = req[t].wallet
              /\ ledger[i].ct # ledger[j].ct

IsPrefix(a, b) == Len(a) <= Len(b) /\ \A i \in 1..Len(a) : a[i] = b[i]

\* worker t's credit or debit completes successfully in this step
Completes(t) ==
    /\ req[t].op \in {"credit", "debit"}
    /\ pc[t] # "done" /\ pc'[t] = "done"
    /\ resp'[t].status = 200

\* C9: the ledger is append-only: every step keeps the old record sequence as
\* a prefix of the new one, a credit or debit that completes successfully
\* appends exactly one record, for its account, and nothing else changes the
\* ledger.
C9_AppendOnly ==
    [][/\ IsPrefix(ledger, ledger')
       /\ \A t \in Workers :
             Completes(t)
                => /\ Len(ledger') = Len(ledger) + 1
                   /\ ledger'[Len(ledger')].wallet = req[t].wallet
       /\ ledger' # ledger => \E t \in Workers : Completes(t)]_vars

C9_Witness ==
    /\ Len(ledger) = 2
    /\ ledger[1] # ledger[2]
    /\ \E t \in Workers :
          req[t].op \in {"credit", "debit"} /\ pc[t] = "done" /\ resp[t].status = 200

\* C10: every key pair key generation returns has n = a*b for two distinct
\* primes a # b, and g = n + 1.
C10_DistinctPrimes ==
    kpc = "done"
        => /\ key.g = key.n + 1
           /\ \E a \in 2..key.n :
                 /\ IsPrime(a) /\ key.n % a = 0
                 /\ key.n \div a # a /\ IsPrime(key.n \div a)

C12_PrimeLoopStops ==
    kpc \in {"p", "q"}
        => \/ bits \div 2 < 1
           \/ \E rnd \in 0..(Pow2(bits \div 2) - 1) :
                 IsPrime(ForceBits(rnd, bits \div 2))

\* C17: for every prime length b >= 2 the prime source returns an odd prime
\* x with 2^(b-1) <= x < 2^b.
C17_PrimeShape ==
    \A x \in {p, q} \ {None} :
        bits \div 2 >= 2
            => /\ x % 2 = 1
               /\ x > 1 /\ \A d \in 2..(x - 1) : x % d # 0
               /\ Pow2(bits \div 2 - 1) <= x /\ x < Pow2(bits \div 2)

C17_Witness == bits \div 2 >= 3 /\ p # None /\ q # None /\ p # q

\* C13: for every amount with 0 <= amount < n, the complement n - amount
\* that debit passes to encrypt satisfies encrypt's precondition 0 <= m < n.
C13_ComplementInRange ==
    \A t \in Workers :
        (local[t].neg_m # None /\ 0 <= local[t].m /\ local[t].m < key.n)
            => (0 <= local[t].neg_m /\ local[t].neg_m < key.n)

\* C14: a credit or debit whose amount is not below n is aborted: it appends
\* no record and is never answered with the new balance.
C14_OutOfRangeAborts ==
    \A t \in Workers :
        (local[t].m # None /\ local[t].m >= key.n) => resp[t].status # 200

\* a ciphertext of the active key: 0 <= c < n^2, modulus n^2
WellFormed(ct) ==
    /\ 0 <= ct.c /\ ct.c < key.n * key.n
    /\ ct.n_squared = key.n * key.n

\* C15: every ciphertext returned by encrypt or by the combination, and every
\* ciphertext stored in a ledger record, has 0 <= c < n^2 and carries the
\* active key's n^2 as its modulus.
C15_CiphertextRange ==
    /\ \A i \in 1..Len(ledger) : WellFormed(ledger[i].ct)
    /\ \A t \in Workers :
          \A ct \in {local[t].ct_m, local[t].prev_ct, local[t].new_ct} \ {NoCt} :
              WellFormed(ct)

C15_Witness ==
    /\ Len(ledger) = 2
    /\ ledger[2].ct.c > key.n
    /\ ledger[1].ct.c * ledger[1].ct.c > key.n * key.n

\* worker t takes a step of a lookup: last_balance, or any step of get_net
LookupStep(t) ==
    /\ pc'[t] # pc[t]
    /\ \/ pc[t] \in {"lb_lock", "lb_find", "net_lock", "net_find"}
       \/ pc'[t] = "net_lock"

\* C16: reading never writes: every step of a net-balance query and of the
\* lookup of an account's current ciphertext (also when the account has no
\* record and an encryption of zero is made) leaves the ledger unchanged.
C16_ReadsDoNotWrite ==
    [][\A t \in Workers : LookupStep(t) => ledger' = ledger]_vars

C16_Witness ==
    \E t \in Workers, t2 \in Workers :
        /\ pc[t] = "push_lock" /\ local[t].seen = 0 /\ local[t].prev_ct # NoCt
        /\ pc[t2] = "done" /\ resp[t2] = NotFound
        /\ ledger = <<>>

\* the ciphertext of the account's most recently appended record, NoCt if none
LatestCt(l, w) ==
    IF \E i \in 1..Len(l) : l[i].wallet = w
    THEN l[CHOOSE i \in 1..Len(l) :
              l[i].wallet = w /\ \A j \in 1..Len(l) : l[j].wallet = w => j <= i].ct
    ELSE NoCt

\* C18: account isolation: no step of a credit or debit on one account
\* changes the most recent record of any other account, so the other
\* account's current ciphertext and query result (not-found included) stay
\* the same.
C18_AccountIsolation ==
    [][\A t \in Workers, b \in Wallets :
          (req[t].op \in {"credit", "debit"} /\ req[t].wallet # b /\ pc'[t] # pc[t])
             => LatestCt(ledger', b) = LatestCt(ledger, b)]_vars

C18_Witness ==
    /\ Len(ledger) = 2
    /\ ledger[1].wallet # ledger[2].wallet
    /\ ledger[1].ct # ledger[2].ct
    /\ pc[1] = "done" /\ resp[1].status = 200

\* C19: operations on different accounts do not interfere: when a credit or
\* debit appends its record and, since it read the ledger, only other
\* accounts got records, the record is the combination of the account's
\* latest ciphertext (an encryption of zero if it has none) with the
\* operation's own encrypted amount.
C19_DifferentAccounts ==
    [][\A t \in Workers :
          (Completes(t)
             /\ \A j \in (local[t].seen + 1)..Len(ledger) :
                   ledger[j].wallet # req[t].wallet)
             => LET prev == LatestCt(ledger, req[t].wallet)
                    new  == ledger'[Len(ledger')].ct
                IN  /\ ledger'[Len(ledger')].wallet = req[t].wallet
                    /\ IF prev # NoCt
                       THEN new.c = (prev.c * local[t].ct_m.c) % key.n_squared
                       ELSE \E r \in 0..(key.n - 1) :
                               new.c = (ModPow(r, key.n, key.n_squared)
                                           * local[t].ct_m.c) % key.n_squared]_vars

C19_Witness ==
    \E t \in Workers, t2 \in Workers :
        /\ t # t2
        /\ pc[t] = "done" /\ resp[t].status = 200
        /\ pc[t2] = "done" /\ resp[t2].status = 200
        /\ req[t].wallet # req[t2].wallet
        /\ local[t].seen = 0 /\ local[t2].seen = 0
        /\ Len(ledger) = 2
        /\ ledger[1].ct.c > 1 /\ ledger[2].ct.c > 1

InCriticalSection(t) == pc[t] \in {"lb_find", "push", "net_find"}

====
